---- MODULE Spec2Model ----
(***************************************************************************)
(* go-doudou code generators: the behaviour of the emitted artifacts.      *)
(*                                                                         *)
(*  - the DAO implementation emitted for domain.User (the text expected    *)
(*    by TestGenDaoImplGo), one action per generated operation;            *)
(*  - the HTTP client emitted by the template tmpl of httpclient.go: the   *)
(*    template is rendered for a method descriptor into a sequence of      *)
(*    statements, and a call of the emitted method runs them in order.     *)
(*                                                                         *)
(* A Go string is a sequence of one-character strings, so that             *)
(* strings.Join and strings.Contains are computed, not assumed.            *)
(***************************************************************************)
EXTENDS Integers, Sequences, FiniteSets, TLC

VARIABLES dao, cli, gen, srv

vars == <<dao, cli, gen, srv>>

----------------------------------------------------------------------------
(* Bounds of the model *)

MaxWhere == 2
MaxTotal == 25
MaxPageSize == 10
MaxPageNo == 3
MaxID == 2
MaxRows == 1
MaxItems == 2
MaxStrategy == 2

----------------------------------------------------------------------------
(* Strings *)

S_select == <<"s", "e", "l", "e", "c", "t", " ", "*", " ", "f", "r", "o", "m", " ", "u", "s", "e", "r">>
S_count == <<"s", "e", "l", "e", "c", "t", " ", "c", "o", "u", "n", "t", "(", "1", ")", " ", "f", "r", "o", "m", " ", "u", "s", "e", "r">>
S_where == <<"w", "h", "e", "r", "e">>
S_sp == <<" ">>
S_deletePrefix == <<"d", "e", "l", "e", "t", "e", " ", "f", "r", "o", "m", " ", "u", "s", "e", "r", " ", "w", "h", "e", "r", "e", " ">>
S_slash == <<"/">>
I_Usersvc == <<"U", "s", "e", "r", "s", "v", "c">>
S_semicolon == <<";">>

\* strings.Join(elems, sep)
RECURSIVE Join(_, _)
Join(elems, sep) ==
    IF elems = <<>> THEN <<>>
    ELSE IF Len(elems) = 1 THEN elems[1]
    ELSE elems[1] \o sep \o Join(Tail(elems), sep)

\* sub occurs in s at position i
OccursAt(s, sub, i) ==
    /\ i + Len(sub) - 1 <= Len(s)
    /\ \A k \in 1..Len(sub) : s[i + k - 1] = sub[k]

\* strings.Contains(s, sub)
Contains(s, sub) == \E i \in 1..(Len(s) - Len(sub) + 1) : OccursAt(s, sub, i)

\* strings.HasPrefix(s, prefix)
HasPrefix(s, prefix) == OccursAt(s, prefix, 1)

----------------------------------------------------------------------------
(* Errors.  Nil is the nil error; errors.Wrap(nil, msg) is nil. *)

Nil == "nil"

Wrap(err, msg) == IF err = Nil THEN Nil ELSE <<msg, err>>

ErrTemplate == "template: block failed"
ErrStore == "store: failed"
ErrResult == "result: not supported"
ErrIncorrectType == "incorrect type of parameter data"

----------------------------------------------------------------------------
(* The generated DAO: UserDaoImpl *)

\* The dynamic type of the data argument (an interface{}) and the entity's
\* primary key as the caller holds it.
DataTypes == {"*domain.User", "domain.User", "*domain.Order", "domain.Order"}
Datas == [type : DataTypes, ID : {0, 1}]

\* query.Q values, each with the text its Sql() returns.
Qs == {[sql |-> <<"i", "d", " ", ">", " ", "1">>], [sql |-> <<"a", "n", "d", " ", "a", "g", "e", " ", "<", " ", "9">>]}
Wheres == UNION {[1..n -> Qs] : n \in 0..MaxWhere}

\* query.Page values: the text Page.Sql() returns and the page NewPageRet
\* derives from it.
Pages == [sql : {<<"l", "i", "m", "i", "t", " ", "0", ",", "5">>},
          PageNo : 1..MaxPageNo, PageSize : 1..MaxPageSize]

\* What the store can answer.
ExecErrs == {Nil, ErrStore}
LastInsertIDs == [id : (0 - 1)..MaxID, err : {Nil}] \cup {[id |-> 0, err |-> ErrResult]}
RowsAffecteds == [n : 0..MaxRows, err : {Nil}] \cup {[n |-> 0, err |-> ErrResult]}
BlockErrs == {Nil, ErrTemplate}

NoData == [type |-> "none", ID |-> 0]
NoPage == [sql |-> <<>>, PageNo |-> 0, PageSize |-> 0]

\* The model follows one call at a time: an operation starts when no call is
\* recorded.
Idle == dao.op = "none" /\ cli.status = "idle" /\ srv.mw = "none"

\* The record of one call of a DAO operation: its arguments, the calls it
\* made on templateutils and on the store in order, the entity as the caller
\* holds it afterwards, and what it returned.
Returned(op, data, after, where, page, calls, val, err) ==
    [op |-> op, data |-> data, after |-> after, where |-> where, page |-> page,
     calls |-> calls, val |-> val, err |-> err]

NoCall == Returned("none", NoData, NoData, <<>>, NoPage, <<>>, 0, Nil)

\* One call on a collaborator: what was called, with what, and what it answered.
Call(fn, arg, out) == [fn |-> fn, arg |-> arg, out |-> out]

Err(e) == [err |-> e]

\* data.(*domain.User)
IsUserPtr(data) == data.type = "*domain.User"

BackPopulate_nonNegative(data, lastInsertID) ==
    IF lastInsertID >= 0 /\ IsUserPtr(data)
    THEN [data EXCEPT !.ID = lastInsertID]
    ELSE data

\* if lastInsertID > 0 { if user, ok := data.(*domain.User); ok { user.ID = int(lastInsertID) } }
\* (int64 to int keeps the value on the 64-bit builds modelled here)
BackPopulate(data, lastInsertID) ==
    IF lastInsertID > 0 /\ IsUserPtr(data)
    THEN [data EXCEPT !.ID = lastInsertID]
    ELSE data

\* Insert, Upsert and UpsertNoneZero share one body: they differ in the block
\* rendered, in the data handed to the template, and in the store call.
InsertLike(op, block, blockData, execFn, data, blockErr, execErr, last, rows) ==
    LET c1 == <<Call("BlockMysql", <<block, blockData>>, Err(blockErr))>>
        c2 == c1 \o <<Call(execFn, block, Err(execErr))>>
        c3 == c2 \o <<Call("LastInsertId", block, last)>>
        c4 == c3 \o <<Call("RowsAffected", block, rows)>>
    IN  IF blockErr # Nil
        THEN Returned(op, data, data, <<>>, NoPage, c1, 0, blockErr)
        ELSE IF execErr # Nil
        THEN Returned(op, data, data, <<>>, NoPage, c2, 0,
                   Wrap(execErr, "error returned from calling db.Exec"))
        ELSE IF last.err # Nil
        THEN Returned(op, data, data, <<>>, NoPage, c3, 0,
                   Wrap(last.err, "error returned from calling result.LastInsertId"))
        ELSE Returned(op, data, BackPopulate(data, last.id), <<>>, NoPage, c4,
                   rows.n, rows.err)

Insert(data, blockErr, execErr, last, rows) ==
    /\ UNCHANGED <<cli, gen, srv>>
    /\ dao' = InsertLike("Insert", "InsertUser", "nil", "NamedExecContext",
                      data, blockErr, execErr, last, rows)

Upsert(data, blockErr, execErr, last, rows) ==
    /\ UNCHANGED <<cli, gen, srv>>
    /\ dao' = InsertLike("Upsert", "UpsertUser", "nil", "NamedExecContext",
                      data, blockErr, execErr, last, rows)

UpsertNoneZero(data, blockErr, execErr, last, rows) ==
    /\ UNCHANGED <<cli, gen, srv>>
    /\ dao' = InsertLike("UpsertNoneZero", "UpsertUserNoneZero", data, "ExecContext",
                      data, blockErr, execErr, last, rows)

\* Update and UpdateNoneZero
UpdateLike(op, block, blockData, execFn, data, blockErr, execErr, rows) ==
    LET c1 == <<Call("BlockMysql", <<block, blockData>>, Err(blockErr))>>
        c2 == c1 \o <<Call(execFn, block, Err(execErr))>>
        c3 == c2 \o <<Call("RowsAffected", block, rows)>>
    IN  IF blockErr # Nil
        THEN Returned(op, data, data, <<>>, NoPage, c1, 0, blockErr)
        ELSE IF execErr # Nil
        THEN Returned(op, data, data, <<>>, NoPage, c2, 0,
                   Wrap(execErr, "error returned from calling db.Exec"))
        ELSE Returned(op, data, data, <<>>, NoPage, c3, rows.n, rows.err)

Update(data, blockErr, execErr, rows) ==
    /\ UNCHANGED <<cli, gen, srv>>
    /\ dao' = UpdateLike("Update", "UpdateUser", "nil", "NamedExecContext",
                      data, blockErr, execErr, rows)

UpdateNoneZero(data, blockErr, execErr, rows) ==
    /\ UNCHANGED <<cli, gen, srv>>
    /\ dao' = UpdateLike("UpdateNoneZero", "UpdateUserNoneZero", data, "ExecContext",
                      data, blockErr, execErr, rows)

\* reflectutils.ValueOf(data).Interface(): the value a pointer points to,
\* any other value as it is.
ValueOf(data) ==
    IF data.type = "*domain.User" THEN [data EXCEPT !.type = "domain.User"]
    ELSE IF data.type = "*domain.Order" THEN [data EXCEPT !.type = "domain.Order"]
    ELSE data

IsUser_unchecked(value) == TRUE

\* user, ok = value.(domain.User)
IsUser(value) == value.type = "domain.User"

\* UpdateMany and UpdateManyNoneZero
UpdateManyLike(op, block, data, where, blockErr, execErr, rows) ==
    LET value == ValueOf(data)
        c1 == <<Call("BlockMysql", <<block, [User |-> value, Where |-> where.sql]>>, Err(blockErr))>>
        c2 == c1 \o <<Call("ExecContext", block, Err(execErr))>>
        c3 == c2 \o <<Call("RowsAffected", block, rows)>>
    IN  IF ~IsUser(value)
        THEN Returned(op, data, data, <<where>>, NoPage, <<>>, 0, ErrIncorrectType)
        ELSE IF blockErr # Nil
        THEN Returned(op, data, data, <<where>>, NoPage, c1, 0, blockErr)
        ELSE IF execErr # Nil
        THEN Returned(op, data, data, <<where>>, NoPage, c2, 0,
                   Wrap(execErr, "error returned from calling db.Exec"))
        ELSE Returned(op, data, data, <<where>>, NoPage, c3, rows.n, rows.err)

UpdateMany(data, where, blockErr, execErr, rows) ==
    /\ UNCHANGED <<cli, gen, srv>>
    /\ dao' = UpdateManyLike("UpdateMany", "UpdateUsers", data, where,
                          blockErr, execErr, rows)

UpdateManyNoneZero(data, where, blockErr, execErr, rows) ==
    /\ UNCHANGED <<cli, gen, srv>>
    /\ dao' = UpdateManyLike("UpdateManyNoneZero", "UpdateUsersNoneZero", data, where,
                          blockErr, execErr, rows)

\* statement = fmt.Sprintf("delete from user where %s;", where.Sql())
DeleteMany(where, execErr, rows) ==
    LET statement == S_deletePrefix \o where.sql \o S_semicolon
        c1 == <<Call("ExecContext", statement, Err(execErr))>>
        c2 == c1 \o <<Call("RowsAffected", statement, rows)>>
    IN  /\ UNCHANGED <<cli, gen, srv>>
        /\ dao' = IF execErr # Nil
                THEN Returned("DeleteMany", NoData, NoData, <<where>>, NoPage, c1, 0,
                              Wrap(execErr, "error returned from calling db.ExecContext"))
                ELSE Returned("DeleteMany", NoData, NoData, <<where>>, NoPage, c2,
                              rows.n, rows.err)

Get(id, blockErr, getErr) ==
    LET c1 == <<Call("BlockMysql", <<"GetUser", "nil">>, Err(blockErr))>>
        c2 == c1 \o <<Call("GetContext", <<"GetUser", id>>, Err(getErr))>>
    IN  /\ UNCHANGED <<cli, gen, srv>>
        /\ dao' = IF blockErr # Nil
                THEN Returned("Get", NoData, NoData, <<>>, NoPage, c1,
                              [type |-> "domain.User", ID |-> 0], blockErr)
                ELSE IF getErr # Nil
                THEN Returned("Get", NoData, NoData, <<>>, NoPage, c2,
                              [type |-> "domain.User", ID |-> 0],
                              Wrap(getErr, "error returned from calling db.Select"))
                ELSE Returned("Get", NoData, NoData, <<>>, NoPage, c2,
                              [type |-> "domain.User", ID |-> id], Nil)

WhereStatements_always(base, where) ==
    <<base, S_where>> \o [i \in 1..Len(where) |-> where[i].sql]

\* statements = append(statements, base)
\* if len(where) > 0 { statements = append(statements, "where")
\*     for _, item := range where { statements = append(statements, item.Sql()) } }
WhereStatements(base, where) ==
    IF Len(where) > 0
    THEN <<base, S_where>> \o [i \in 1..Len(where) |-> where[i].sql]
    ELSE <<base>>

SelectMany(where, selectErr) ==
    LET statement == Join(WhereStatements(S_select, where), S_sp)
        c1 == <<Call("SelectContext", statement, Err(selectErr))>>
    IN  /\ UNCHANGED <<cli, gen, srv>>
        /\ dao' = IF selectErr # Nil
                THEN Returned("SelectMany", NoData, NoData, where, NoPage, c1, "nil",
                              Wrap(selectErr, "error returned from calling db.SelectContext"))
                ELSE Returned("SelectMany", NoData, NoData, where, NoPage, c1, "users", Nil)

CountMany(where, getErr, total) ==
    LET statement == Join(WhereStatements(S_count, where), S_sp)
        c1 == <<Call("GetContext", statement, Err(getErr))>>
    IN  /\ UNCHANGED <<cli, gen, srv>>
        /\ dao' = IF getErr # Nil
                THEN Returned("CountMany", NoData, NoData, where, NoPage, c1, 0,
                              Wrap(getErr, "error returned from calling db.GetContext"))
                ELSE Returned("CountMany", NoData, NoData, where, NoPage, c1, total, Nil)

\* query.NewPageRet(page): a PageRet of the page's number and size, nothing else set.
NewPageRet(page) ==
    [PageNo |-> page.PageNo, PageSize |-> page.PageSize,
     Items |-> "nil", Total |-> 0, HasNext |-> FALSE]

\* math.Ceil(float64(n) / float64(d)) for n >= 0, d > 0; float64 holds these
\* integers and the quotient's rounding never crosses an integer below 2^53.
Ceil(n, d) == IF n % d = 0 THEN n \div d ELSE n \div d + 1

SetHasNext_atLeast(pageRet, total) ==
    IF Ceil(total, pageRet.PageSize) >= pageRet.PageNo
    THEN [pageRet EXCEPT !.HasNext = TRUE]
    ELSE pageRet

\* if math.Ceil(float64(total)/float64(pageRet.PageSize)) > float64(pageRet.PageNo) {
\*     pageRet.HasNext = true }
SetHasNext(pageRet, total) ==
    IF Ceil(total, pageRet.PageSize) > pageRet.PageNo
    THEN [pageRet EXCEPT !.HasNext = TRUE]
    ELSE pageRet

EmptyPageRet == [PageNo |-> 0, PageSize |-> 0, Items |-> "nil", Total |-> 0, HasNext |-> FALSE]

PageMany(page, where, selectErr, getErr, total) ==
    LET statement1 == Join(WhereStatements(S_select, where) \o <<page.sql>>, S_sp)
        statement2 == Join(WhereStatements(S_count, where), S_sp)
        c1 == <<Call("SelectContext", statement1, Err(selectErr))>>
        c2 == c1 \o <<Call("GetContext", statement2, Err(getErr))>>
        pageRet == [NewPageRet(page) EXCEPT !.Items = "users", !.Total = total]
    IN  /\ UNCHANGED <<cli, gen, srv>>
        /\ dao' = IF selectErr # Nil
                THEN Returned("PageMany", NoData, NoData, where, page, c1, EmptyPageRet,
                              Wrap(selectErr, "error returned from calling db.SelectContext"))
                ELSE IF getErr # Nil
                THEN Returned("PageMany", NoData, NoData, where, page, c2, EmptyPageRet,
                              Wrap(getErr, "error returned from calling db.GetContext"))
                ELSE Returned("PageMany", NoData, NoData, where, page, c2,
                              SetHasNext(pageRet, total), Nil)

DaoNext ==
    \/ Idle /\ \E d \in Datas, b \in BlockErrs, e \in ExecErrs, l \in LastInsertIDs, r \in RowsAffecteds :
          Insert(d, b, e, l, r)
    \/ Idle /\ \E d \in Datas, b \in BlockErrs, e \in ExecErrs, l \in LastInsertIDs, r \in RowsAffecteds :
          Upsert(d, b, e, l, r)
    \/ Idle /\ \E d \in Datas, b \in BlockErrs, e \in ExecErrs, l \in LastInsertIDs, r \in RowsAffecteds :
          UpsertNoneZero(d, b, e, l, r)
    \/ Idle /\ \E d \in Datas, b \in BlockErrs, e \in ExecErrs, r \in RowsAffecteds :
          Update(d, b, e, r)
    \/ Idle /\ \E d \in Datas, b \in BlockErrs, e \in ExecErrs, r \in RowsAffecteds :
          UpdateNoneZero(d, b, e, r)
    \/ Idle /\ \E d \in Datas, w \in Qs, b \in BlockErrs, e \in ExecErrs, r \in RowsAffecteds :
          UpdateMany(d, w, b, e, r)
    \/ Idle /\ \E d \in Datas, w \in Qs, b \in BlockErrs, e \in ExecErrs, r \in RowsAffecteds :
          UpdateManyNoneZero(d, w, b, e, r)
    \/ Idle /\ \E w \in Qs, e \in ExecErrs, r \in RowsAffecteds :
          DeleteMany(w, e, r)
    \/ Idle /\ \E id \in 1..MaxID, b \in BlockErrs, e \in ExecErrs :
          Get(id, b, e)
    \/ Idle /\ \E w \in Wheres, e \in ExecErrs :
          SelectMany(w, e)
    \/ Idle /\ \E w \in Wheres, e \in ExecErrs, t \in 0..MaxTotal :
          CountMany(w, e, t)
    \/ Idle /\ \E p \in Pages, w \in Wheres, e1 \in ExecErrs, e2 \in ExecErrs, t \in 0..MaxTotal :
          PageMany(p, w, e1, e2, t)

----------------------------------------------------------------------------
(* Letters, and the case conversions the template's helpers make *)

Lowers == <<"a", "b", "c", "d", "e", "f", "g", "h", "i", "j", "k", "l", "m", "n", "o", "p", "q", "r", "s", "t", "u", "v", "w", "x", "y", "z">>
Uppers == <<"A", "B", "C", "D", "E", "F", "G", "H", "I", "J", "K", "L", "M", "N", "O", "P", "Q", "R", "S", "T", "U", "V", "W", "X", "Y", "Z">>
Digits == <<"0", "1", "2", "3", "4", "5", "6", "7", "8", "9">>

IsIn(seq, ch) == \E i \in 1..Len(seq) : seq[i] = ch
IndexIn(seq, ch) == CHOOSE i \in 1..Len(seq) : seq[i] = ch
IsLetter(ch) == IsIn(Lowers, ch) \/ IsIn(Uppers, ch)
IsDigit(ch) == IsIn(Digits, ch)
ToUpperCh(ch) == IF IsIn(Lowers, ch) THEN Uppers[IndexIn(Lowers, ch)] ELSE ch
ToLowerCh(ch) == IF IsIn(Uppers, ch) THEN Lowers[IndexIn(Uppers, ch)] ELSE ch

\* strings.ToLower(s)
ToLower(s) == [i \in 1..Len(s) |-> ToLowerCh(s[i])]

\* strings.Title(s): the first letter of every word in upper case
Title(s) ==
    [i \in 1..Len(s) |->
        IF i = 1 \/ ~(IsLetter(s[i - 1]) \/ IsDigit(s[i - 1]) \/ s[i - 1] = "_")
        THEN ToUpperCh(s[i]) ELSE s[i]]

\* strcase.ToCamel(s) and strcase.ToLowerCamel(s): letters are kept, the
\* letter after a digit or after one of _ - . and space is capitalised, the
\* separators are dropped; the first letter is upper (lower) case.
RECURSIVE CamelFrom(_, _, _)
CamelFrom(s, i, capNext) ==
    IF i > Len(s) THEN <<>>
    ELSE LET v == s[i]
             w == IF capNext THEN ToUpperCh(v)
                  ELSE IF i = 1 THEN ToLowerCh(v) ELSE v
         IN  IF IsLetter(v) THEN <<w>> \o CamelFrom(s, i + 1, FALSE)
             ELSE IF IsDigit(v) THEN <<v>> \o CamelFrom(s, i + 1, TRUE)
             ELSE CamelFrom(s, i + 1, v \in {"_", " ", "-", "."})

ToCamel(s) == CamelFrom(s, 1, TRUE)

ToLowerCamel(s) == CamelFrom(s, 1, FALSE)

----------------------------------------------------------------------------
(* Method descriptors (astutils.MethodMeta): the interface handed to       *)
(* GenGoClient                                                             *)

T_error == <<"e", "r", "r", "o", "r">>
T_file == <<"*", "o", "s", ".", "F", "i", "l", "e">>
T_context == <<"c", "o", "n", "t", "e", "x", "t", ".", "C", "o", "n", "t", "e", "x", "t">>
T_int == <<"i", "n", "t">>
T_ints == <<"[", "]", "i", "n", "t">>
T_string == <<"s", "t", "r", "i", "n", "g">>
T_User == <<"v", "o", ".", "U", "s", "e", "r">>
S_FileHeader == <<"*", "m", "u", "l", "t", "i", "p", "a", "r", "t", ".", "F", "i", "l", "e", "H", "e", "a", "d", "e", "r">>
S_FileModel == <<"*", "v", "3", ".", "F", "i", "l", "e", "M", "o", "d", "e", "l">>
S_bracket == <<"[">>


R_err == <<"e", "r", "r">>
R_new_id == <<"n", "e", "w", "_", "i", "d">>
R_n == <<"n">>

Field(name, type) == [Name |-> name, Type |-> type]
Method(name, params, results) == [Name |-> name, Params |-> params, Results |-> results]

\* GetUser(ctx context.Context, id int, tags []int) (data vo.User, err error)
M_GetUser ==
    Method(<<"G", "e", "t", "U", "s", "e", "r">>,
           <<Field("ctx", T_context), Field("id", T_int), Field("tags", T_ints)>>,
           <<Field(<<"d", "a", "t", "a">>, T_User), Field(R_err, T_error)>>)

\* CreateUser(ctx context.Context, user vo.User, tags []int) (new_id int, err error)
M_CreateUser ==
    Method(<<"C", "r", "e", "a", "t", "e", "U", "s", "e", "r">>,
           <<Field("ctx", T_context), Field("user", T_User), Field("tags", T_ints)>>,
           <<Field(R_new_id, T_int), Field(R_err, T_error)>>)

\* DeleteUsers(ctx context.Context, ids []int, force int) (n int, err error)
M_DeleteUsers ==
    Method(<<"D", "e", "l", "e", "t", "e", "U", "s", "e", "r", "s">>,
           <<Field("ctx", T_context), Field("ids", T_ints), Field("force", T_int)>>,
           <<Field(R_n, T_int), Field(R_err, T_error)>>)

\* UploadAvatar(avatar *multipart.FileHeader, id int) (url string, err error)
M_UploadAvatar ==
    Method(<<"U", "p", "l", "o", "a", "d", "A", "v", "a", "t", "a", "r">>,
           <<Field("avatar", <<"*", "m", "u", "l", "t", "i", "p", "a", "r", "t", ".", "F", "i", "l", "e", "H", "e", "a", "d", "e", "r">>), Field("id", T_int)>>,
           <<Field(<<"u", "r", "l">>, T_string), Field(R_err, T_error)>>)

\* UploadPhotos(photos []*multipart.FileHeader) (n int, err error)
M_UploadPhotos ==
    Method(<<"U", "p", "l", "o", "a", "d", "P", "h", "o", "t", "o", "s">>,
           <<Field("photos", <<"[", "]", "*", "m", "u", "l", "t", "i", "p", "a", "r", "t", ".", "F", "i", "l", "e", "H", "e", "a", "d", "e", "r">>)>>,
           <<Field(R_n, T_int), Field(R_err, T_error)>>)

\* ImportModels(model *v3.FileModel, models []*v3.FileModel) (err error)
M_ImportModels ==
    Method(<<"I", "m", "p", "o", "r", "t", "M", "o", "d", "e", "l", "s">>,
           <<Field("model", <<"*", "v", "3", ".", "F", "i", "l", "e", "M", "o", "d", "e", "l">>), Field("models", <<"[", "]", "*", "v", "3", ".", "F", "i", "l", "e", "M", "o", "d", "e", "l">>)>>,
           <<Field(R_err, T_error)>>)

\* GetFile(id int) (name string, f *os.File, err error)
M_GetFile ==
    Method(<<"G", "e", "t", "F", "i", "l", "e">>,
           <<Field("id", T_int)>>,
           <<Field(<<"n", "a", "m", "e">>, T_string), Field(<<"f">>, T_file), Field(R_err, T_error)>>)

\* GetStatus(id int) (status string)
M_GetStatus ==
    Method(<<"G", "e", "t", "S", "t", "a", "t", "u", "s">>,
           <<Field("id", T_int)>>,
           <<Field(<<"s", "t", "a", "t", "u", "s">>, T_string)>>)

\* ic.Interfaces[0].Methods
Methods ==
    <<M_GetUser, M_CreateUser, M_DeleteUsers, M_UploadAvatar, M_UploadPhotos,
      M_ImportModels, M_GetFile, M_GetStatus>>

----------------------------------------------------------------------------
(* The template's helper functions *)

S_GET == <<"G", "E", "T">>
S_Get == <<"G", "e", "t">>

\* httpMethod(methodName): the verb a method name's prefix stands for.
HttpMethod(method) ==
    IF \E p \in {S_Get, <<"L", "i", "s", "t">>, <<"P", "a", "g", "e">>, <<"C", "o", "u", "n", "t">>} : HasPrefix(method, p) THEN S_GET
    ELSE IF \E p \in {<<"C", "r", "e", "a", "t", "e">>, <<"I", "n", "s", "e", "r", "t">>} : HasPrefix(method, p) THEN <<"P", "O", "S", "T">>
    ELSE IF HasPrefix(method, <<"U", "p", "d", "a", "t", "e">>) THEN <<"P", "U", "T">>
    ELSE IF HasPrefix(method, <<"D", "e", "l", "e", "t", "e">>) THEN <<"D", "E", "L", "E", "T", "E">>
    ELSE <<"P", "O", "S", "T">>

\* func restyMethod(method string) string
RestyMethod(method) == Title(ToLower(HttpMethod(method)))

Primitives == {T_int, T_string}

\* v3.IsBuiltin(field): a primitive or a collection of primitives
IsBuiltin(p) ==
    \/ p.Type \in Primitives
    \/ /\ HasPrefix(p.Type, <<"[", "]">>)
       /\ SubSeq(p.Type, 3, Len(p.Type)) \in Primitives


----------------------------------------------------------------------------
(* Rendering the template for one method: the statements of the emitted    *)
(* method, in order                                                        *)

Stmt(op, param, result) == [op |-> op, param |-> param, result |-> result]

\* {{- range $p := $m.Params }} ... {{- end }}: the statement emitted for
\* parameter i, by the first branch its type matches.
ParamStmt(m, i) ==
    LET p == m.Params[i]
    IN  IF Contains(p.Type, S_FileHeader)
        THEN IF Contains(p.Type, S_bracket)
             THEN Stmt("OpenFiles", i, 0)
             ELSE Stmt("OpenFile", i, 0)
        ELSE IF Contains(p.Type, S_FileModel)
        THEN IF Contains(p.Type, S_bracket)
             THEN Stmt("SetFileReaders", i, 0)
             ELSE Stmt("SetFileReader", i, 0)
        ELSE IF p.Type = T_context THEN Stmt("SetContext", i, 0)
        ELSE IF ~IsBuiltin(p) THEN Stmt("SetBody", i, 0)
        ELSE IF Contains(p.Type, S_bracket) THEN Stmt("AddValues", i, 0)
        ELSE Stmt("SetValue", i, 0)

\* The results of type *os.File, in declared order.
FileResults(m) ==
    LET RECURSIVE From(_)
        From(i) == IF i > Len(m.Results) THEN <<>>
                   ELSE IF m.Results[i].Type = T_file THEN <<i>> \o From(i + 1)
                   ELSE From(i + 1)
    IN  From(1)

\* {{- range $r := $m.Results }}{{- if eq $r.Type "*os.File" }} ... {{- $done = true }}
Done(m) == FileResults(m) # <<>>

JsonBranch_always(m) == <<Stmt("Json", 0, 0)>>

\* {{- if not $done }} ... {{- end }}
JsonBranch(m) == IF ~Done(m) THEN <<Stmt("Json", 0, 0)>> ELSE <<>>

\* The words of a method name: a new word starts at every upper-case letter.
RECURSIVE WordsFrom(_, _, _)
WordsFrom(s, i, word) ==
    IF i > Len(s) THEN (IF word = <<>> THEN <<>> ELSE <<word>>)
    ELSE IF IsIn(Uppers, s[i]) /\ word # <<>>
         THEN <<word>> \o WordsFrom(s, i + 1, <<s[i]>>)
         ELSE WordsFrom(s, i + 1, word \o <<s[i]>>)

\* pattern(methodName): the name split to words, in lower case, one path
\* segment per word.
Pattern(method) ==
    LET words == WordsFrom(method, 1, <<>>)
    IN  Join([i \in 1..Len(words) |-> ToLower(words[i])], S_slash)

\* noSplitPattern(methodName): the name in lower case, not split.
NoSplitPattern(method) == ToLower(method)

\* The interfaces a client is generated for (.Meta.Name).
InterfaceNames == {I_Usersvc, <<"F", "i", "l", "e", "s">>}

\* The generation-time configuration: GenGoClient's routePatternStrategy and
\* the interface's name.
Gens == [RoutePatternStrategy : 0..MaxStrategy, Name : InterfaceNames]

Path_alwaysSplit(strategy, name, method) == S_slash \o Pattern(method)

\* {{- if eq $.RoutePatternStrategy 1}}
\* _path := "/{{$.Meta.Name | lower}}/{{$m.Name | noSplitPattern}}"
\* {{- else }}
\* _path := "/{{$m.Name | pattern}}"
\* {{- end }}
Path(strategy, name, method) ==
    IF strategy = 1
    THEN S_slash \o ToLower(name) \o S_slash \o NoSplitPattern(method)
    ELSE S_slash \o Pattern(method)

\* {{- if eq ($m.Name | httpMethod) "GET" }} ... {{- else }} ... {{- end }}
SendStmt(m) ==
    IF HttpMethod(m.Name) = S_GET
    THEN [op |-> "Get", param |-> 0, result |-> 0, verb |-> S_Get,
          path |-> Path(gen.RoutePatternStrategy, gen.Name, m.Name)]
    ELSE [op |-> "Send", param |-> 0, result |-> 0, verb |-> RestyMethod(m.Name),
          path |-> Path(gen.RoutePatternStrategy, gen.Name, m.Name)]

Render(m) ==
    <<Stmt("SelectServer", 0, 0)>>
    \o [i \in 1..Len(m.Params) |-> ParamStmt(m, i)]
    \o [k \in 1..Len(FileResults(m)) |-> Stmt("SetDoNotParseResponse", 0, FileResults(m)[k])]
    \o <<SendStmt(m), Stmt("IsError", 0, 0)>>
    \o [k \in 1..Len(FileResults(m)) |-> Stmt("Download", 0, FileResults(m)[k])]
    \o JsonBranch(m)


----------------------------------------------------------------------------
(* A call of an emitted client method *)

\* The values of an argument: a collection is a sequence of up to MaxItems
\* items, any other argument a sequence of one.
Items == {[i \in 1..k |-> i] : k \in 0..MaxItems}

ArgSets(m) ==
    {a \in [1..Len(m.Params) -> Items] :
        \A i \in 1..Len(m.Params) :
            Contains(m.Params[i].Type, S_bracket) \/ Len(a[i]) = 1}

NoBody == [param |-> "nil"]
NoContext == [param |-> "nil"]
NoResponse == [isError |-> FALSE]

ErrProvider == "provider: no server available"
ErrOpen == "open: no such file"
ErrNetwork == "network: connection refused"
ErrFile == "file: permission denied"
ErrJson == "json: unexpected end of input"
ErrorBody == "response body"

\* The zero value of a named result.
ZeroOf(type) == IF type = T_error THEN Nil ELSE "zero"
ZeroResults(m) == [i \in 1..Len(m.Results) |-> ZeroOf(m.Results[i].Type)]

\* _urlValues := url.Values{}
ParamNames(m) == {m.Params[i].Name : i \in 1..Len(m.Params)}
EmptyValues(m) == [n \in ParamNames(m) |-> <<>>]

\* fmt.Sprintf("%v", item)
Sprintf(item) == ToString(item)

\* url.Values.Set and url.Values.Add
Set(values, key, value) == [values EXCEPT ![key] = <<value>>]
Add(values, key, value) == [values EXCEPT ![key] = @ \o <<value>>]

NoClient ==
    [status |-> "idle", m |-> 0, args |-> <<>>, pc |-> 0, idx |-> 0,
     server |-> "", urlValues |-> <<>>, body |-> NoBody, ctx |-> NoContext,
     files |-> <<>>, doNotParse |-> FALSE, sent |-> <<>>, resp |-> NoResponse,
     steps |-> <<>>, failed |-> "", result |-> <<>>, res |-> <<>>]

\* The statement the call is at.
Code == Render(Methods[cli.m])
At(ops) ==
    /\ cli.status = "running"
    /\ cli.pc <= Len(Code)
    /\ Code[cli.pc].op \in ops

\* {{- range $r := $m.Results }}{{- if eq $r.Type "error" }}
\*     {{ $r.Name }} = errors.Wrap(_err, "") {{- end }}{{- end }}
SetErrorResults(m, res, err) ==
    [i \in 1..Len(m.Results) |-> IF m.Results[i].Type = T_error THEN err ELSE res[i]]

\* ... return
Fail(c, step, err) ==
    [c EXCEPT !.status = "returned", !.failed = step,
              !.res = SetErrorResults(Methods[c.m], c.res, err)]

Invoke(m, args) ==
    /\ Idle
    /\ cli' = [NoClient EXCEPT !.status = "running", !.m = m, !.args = args, !.pc = 1,
                               !.urlValues = EmptyValues(Methods[m]),
                               !.res = ZeroResults(Methods[m])]
    /\ UNCHANGED <<dao, gen, srv>>

\* if _server, _err = receiver.provider.SelectServer(); _err != nil { ...; return }
SelectServer(err) ==
    /\ At({"SelectServer"})
    /\ LET c == [cli EXCEPT !.steps = @ \o <<"SelectServer">>]
       IN  cli' = IF err # Nil
                  THEN Fail(c, "SelectServer", Wrap(err, ""))
                  ELSE [c EXCEPT !.server = "server", !.pc = @ + 1]
    /\ UNCHANGED <<dao, gen, srv>>

Attach(c, param, file) == [c EXCEPT !.files = @ \o <<[param |-> param, file |-> file]>>]

\* if _f, _err := p.Open(); _err != nil { ...; return } else { _req.SetFileReader(...) }
OpenFile(err) ==
    /\ At({"OpenFile"})
    /\ LET p == Code[cli.pc].param
           c == [cli EXCEPT !.steps = @ \o <<"Open">>]
       IN  cli' = IF err # Nil
                  THEN Fail(c, "Open", Wrap(err, ""))
                  ELSE [Attach(c, Methods[cli.m].Params[p].Name, cli.args[p][1])
                           EXCEPT !.pc = @ + 1]
    /\ UNCHANGED <<dao, gen, srv>>

OpenFiles_skip(err) ==
    /\ At({"OpenFiles"})
    /\ LET p == Code[cli.pc].param
           c == [cli EXCEPT !.steps = @ \o <<"Open">>]
       IN  cli' = IF cli.idx >= Len(cli.args[p])
                  THEN [cli EXCEPT !.pc = @ + 1, !.idx = 0]
                  ELSE IF err # Nil
                  THEN [c EXCEPT !.idx = @ + 1, !.failed = "Open"]
                  ELSE [Attach(c, Methods[cli.m].Params[p].Name, cli.args[p][cli.idx + 1])
                           EXCEPT !.idx = @ + 1]
    /\ UNCHANGED <<dao, gen, srv>>

\* for _, _fh := range p { _f, _err := _fh.Open()
\*     if _err != nil { ...; return }
\*     _req.SetFileReader(...) }
\* one turn of the loop, or leaving it
OpenFiles(err) ==
    /\ At({"OpenFiles"})
    /\ LET p == Code[cli.pc].param
           c == [cli EXCEPT !.steps = @ \o <<"Open">>]
       IN  cli' = IF cli.idx >= Len(cli.args[p])
                  THEN [cli EXCEPT !.pc = @ + 1, !.idx = 0]
                  ELSE IF err # Nil
                  THEN Fail(c, "Open", Wrap(err, ""))
                  ELSE [Attach(c, Methods[cli.m].Params[p].Name, cli.args[p][cli.idx + 1])
                           EXCEPT !.idx = @ + 1]
    /\ UNCHANGED <<dao, gen, srv>>

RECURSIVE AttachAll(_, _, _)
AttachAll(c, param, files) ==
    IF files = <<>> THEN c
    ELSE AttachAll(Attach(c, param, Head(files)), param, Tail(files))

\* _req.SetFileReader(name, p.Filename, p.Reader), for p or for each of p
SetFileReader ==
    /\ At({"SetFileReader", "SetFileReaders"})
    /\ LET p == Code[cli.pc].param
       IN  cli' = [AttachAll(cli, Methods[cli.m].Params[p].Name, cli.args[p])
                      EXCEPT !.pc = @ + 1]
    /\ UNCHANGED <<dao, gen, srv>>

\* _req.SetContext(p)
SetContext ==
    /\ At({"SetContext"})
    /\ cli' = [cli EXCEPT !.ctx = [param |-> Methods[cli.m].Params[Code[cli.pc].param].Name],
                          !.pc = @ + 1]
    /\ UNCHANGED <<dao, gen, srv>>

\* _req.SetBody(p)
SetBody ==
    /\ At({"SetBody"})
    /\ cli' = [cli EXCEPT !.body = [param |-> Methods[cli.m].Params[Code[cli.pc].param].Name],
                          !.pc = @ + 1]
    /\ UNCHANGED <<dao, gen, srv>>

RECURSIVE AddAll(_, _, _)
AddAll(values, key, items) ==
    IF items = <<>> THEN values
    ELSE AddAll(Add(values, key, Sprintf(Head(items))), key, Tail(items))

\* for _, _item := range p { _urlValues.Add(name, fmt.Sprintf("%v", _item)) }
AddValues ==
    /\ At({"AddValues"})
    /\ LET p == Code[cli.pc].param
       IN  cli' = [cli EXCEPT !.urlValues = AddAll(@, Methods[cli.m].Params[p].Name, cli.args[p]),
                              !.pc = @ + 1]
    /\ UNCHANGED <<dao, gen, srv>>

\* _urlValues.Set(name, fmt.Sprintf("%v", p))
SetValue ==
    /\ At({"SetValue"})
    /\ LET p == Code[cli.pc].param
       IN  cli' = [cli EXCEPT !.urlValues = Set(@, Methods[cli.m].Params[p].Name,
                                                Sprintf(cli.args[p][1])),
                              !.pc = @ + 1]
    /\ UNCHANGED <<dao, gen, srv>>

\* _req.SetDoNotParseResponse(true)
SetDoNotParseResponse ==
    /\ At({"SetDoNotParseResponse"})
    /\ cli' = [cli EXCEPT !.doNotParse = TRUE, !.pc = @ + 1]
    /\ UNCHANGED <<dao, gen, srv>>


Request_bodyIgnored(c, stmt) ==
    LET m == Methods[c.m]
        query == stmt.op = "Get"
    IN  [verb |-> stmt.verb, url |-> <<c.server, stmt.path>>,
         query |-> IF query THEN c.urlValues ELSE EmptyValues(m),
         form |-> IF query THEN EmptyValues(m) ELSE c.urlValues,
         body |-> c.body, ctx |-> c.ctx, files |-> c.files,
         doNotParse |-> c.doNotParse]

\* The request as it is sent:
\*   GET:    _req.SetQueryParamsFromValues(_urlValues).Get(_server + _path)
\*   others: if _req.Body != nil { _req.SetQueryParamsFromValues(_urlValues) }
\*           else { _req.SetFormDataFromValues(_urlValues) }
\*           _req.<verb>(_server + _path)
Request(c, stmt) ==
    LET m == Methods[c.m]
        query == stmt.op = "Get" \/ c.body # NoBody
    IN  [verb |-> stmt.verb, url |-> <<c.server, stmt.path>>,
         query |-> IF query THEN c.urlValues ELSE EmptyValues(m),
         form |-> IF query THEN EmptyValues(m) ELSE c.urlValues,
         body |-> c.body, ctx |-> c.ctx, files |-> c.files,
         doNotParse |-> c.doNotParse]

\* _resp, _err := _req. ... ; if _err != nil { ...; return }
Send(err, isError) ==
    /\ At({"Get", "Send"})
    /\ LET c == [cli EXCEPT !.steps = @ \o <<"Send">>,
                            !.sent = @ \o <<Request(cli, Code[cli.pc])>>]
       IN  cli' = IF err # Nil
                  THEN Fail(c, "Send", Wrap(err, ""))
                  ELSE [c EXCEPT !.resp = [isError |-> isError], !.pc = @ + 1]
    /\ UNCHANGED <<dao, gen, srv>>

IsError_noReturn ==
    /\ At({"IsError"})
    /\ cli' = IF cli.resp.isError
              THEN [cli EXCEPT !.failed = "IsError", !.pc = @ + 1,
                               !.res = SetErrorResults(Methods[cli.m], cli.res, ErrorBody)]
              ELSE [cli EXCEPT !.pc = @ + 1]
    /\ UNCHANGED <<dao, gen, srv>>

\* if _resp.IsError() { <error result> = errors.New(_resp.String()); return }
IsError ==
    /\ At({"IsError"})
    /\ cli' = IF cli.resp.isError
              THEN Fail(cli, "IsError", ErrorBody)
              ELSE [cli EXCEPT !.pc = @ + 1]
    /\ UNCHANGED <<dao, gen, srv>>

DownloadOutcomes == {"CreateDirectory", "os.Create", "io.Copy", "ok"}

\* The *os.File branch: fileutils.CreateDirectory, os.Create, io.Copy, each
\* returning on its error; then <file result> = _outFile; return
Download(outcome) ==
    /\ At({"Download"})
    /\ LET r == Code[cli.pc].result
           done == IF outcome = "CreateDirectory" THEN <<"CreateDirectory">>
                   ELSE IF outcome = "os.Create" THEN <<"CreateDirectory", "os.Create">>
                   ELSE <<"CreateDirectory", "os.Create", "io.Copy">>
           c == [cli EXCEPT !.steps = @ \o done]
       IN  cli' = IF outcome # "ok"
                  THEN Fail(c, outcome, Wrap(ErrFile, ""))
                  ELSE [c EXCEPT !.status = "returned", !.res[r] = "file"]
    /\ UNCHANGED <<dao, gen, srv>>

\* The fields of var _result struct { ... }
FieldNames(m) == {ToCamel(m.Results[i].Name) : i \in 1..Len(m.Results)}

\* What json.Unmarshal can leave in _result: a string for an error result.
Decoded(m) ==
    {d \in [FieldNames(m) -> {"", "boom", "zero", "v1"}] :
        \A i \in 1..Len(m.Results) :
            d[ToCamel(m.Results[i].Name)] \in
                IF m.Results[i].Type = T_error THEN {"", "boom"} ELSE {"zero", "v1"}}

\* stringutils.IsNotEmpty(s)
IsNotEmpty(s) == s # ""

JsonResults_keep(m, res, result) ==
    LET errs == {i \in 1..Len(m.Results) :
                    m.Results[i].Type = T_error
                    /\ IsNotEmpty(result[ToCamel(m.Results[i].Name)])}
    IN  [i \in 1..Len(m.Results) |->
            IF m.Results[i].Type = T_error
            THEN IF i \in errs THEN result[ToCamel(m.Results[i].Name)] ELSE Nil
            ELSE result[ToCamel(m.Results[i].Name)]]

\* {{- range $r := $m.Results }}{{- if eq $r.Type "error" }}
\*     if stringutils.IsNotEmpty(_result.X) { x = errors.New(_result.X); return }
\* {{- end }}{{- end }}
\* return <nil for an error result, _result.X for any other>
JsonResults(m, res, result) ==
    LET errs == {i \in 1..Len(m.Results) :
                    m.Results[i].Type = T_error
                    /\ IsNotEmpty(result[ToCamel(m.Results[i].Name)])}
        first == CHOOSE i \in errs : \A j \in errs : i <= j
    IN  IF errs # {}
        THEN [res EXCEPT ![first] = result[ToCamel(m.Results[first].Name)]]
        ELSE [i \in 1..Len(m.Results) |->
                 IF m.Results[i].Type = T_error THEN Nil
                 ELSE result[ToCamel(m.Results[i].Name)]]

\* if _err = json.Unmarshal(_resp.Body(), &_result); _err != nil { ...; return }
Json(err, result) ==
    /\ At({"Json"})
    /\ LET c == [cli EXCEPT !.steps = @ \o <<"json.Unmarshal">>]
       IN  cli' = IF err # Nil
                  THEN Fail(c, "json.Unmarshal", Wrap(err, ""))
                  ELSE [c EXCEPT !.status = "returned", !.result = result,
                                 !.res = JsonResults(Methods[cli.m], cli.res, result)]
    /\ UNCHANGED <<dao, gen, srv>>

ClientNext ==
    \/ \E m \in 1..Len(Methods) : \E a \in ArgSets(Methods[m]) : Invoke(m, a)
    \/ \E e \in {Nil, ErrProvider} : SelectServer(e)
    \/ \E e \in {Nil, ErrOpen} : OpenFile(e)
    \/ \E e \in {Nil, ErrOpen} : OpenFiles(e)
    \/ SetFileReader
    \/ SetContext
    \/ SetBody
    \/ AddValues
    \/ SetValue
    \/ SetDoNotParseResponse
    \/ \E e \in {Nil, ErrNetwork}, isError \in BOOLEAN : Send(e, isError)
    \/ IsError
    \/ \E o \in DownloadOutcomes : Download(o)
    \/ At({"Json"}) /\ \E e \in {Nil, ErrJson}, d \in Decoded(Methods[cli.m]) : Json(e, d)


----------------------------------------------------------------------------
(* The HTTP middleware of package ddhttp: a handler wraps an inner handler *)

S_goDoudou == <<"/", "g", "o", "-", "d", "o", "u", "d", "o", "u", "/">>
S_multipart == <<"m", "u", "l", "t", "i", "p", "a", "r", "t", "/", "f", "o", "r", "m", "-", "d", "a", "t", "a">>

\* The header keys a response of this model carries; "" is an unset key.
HeaderKeys == {"Content-Type", "X-Content-Type-Options", "WWW-Authenticate"}
NoHeader == [k \in HeaderKeys |-> ""]

\* An http.ResponseWriter: the header map, the status written (0: none yet),
\* the header as it was sent with the status, and the body written so far.
NewWriter == [Header |-> NoHeader, Code |-> 0, Sent |-> NoHeader, Body |-> <<>>]

\* w.WriteHeader(code): the first call sends the status with the header map
\* as it is then; a later call is ignored.
WriteHeader(w, code) ==
    IF w.Code # 0 THEN w ELSE [w EXCEPT !.Code = code, !.Sent = w.Header]

\* w.Write(b): the status is 200 when none was written before.
Write(w, b) == [WriteHeader(w, 200) EXCEPT !.Body = @ \o <<b>>]

\* What the client receives from a writer once the handler has returned.
Delivered(w) ==
    IF w.Code = 0
    THEN [StatusCode |-> 200, Header |-> w.Header, Body |-> w.Body]
    ELSE [StatusCode |-> w.Code, Header |-> w.Sent, Body |-> w.Body]

\* http.Error(w, error, code)
Error(w, error, code) ==
    LET h == [w EXCEPT !.Header["Content-Type"] = "text/plain; charset=utf-8",
                       !.Header["X-Content-Type-Options"] = "nosniff"]
    IN  Write(WriteHeader(h, code), error)

\* What an inner handler does with the writer it is given: the header keys
\* it sets, the status it writes (0: none) and the body it writes (<<>>: none).
Inners == [Header : {NoHeader, [NoHeader EXCEPT !["Content-Type"] = "application/json"]}, Code : {0, 200, 404}, Body : {<<>>, <<"ok">>}]

\* for k, v := range header { w.Header()[k] = v }: the keys that are set
\* replace the writer's, the others stay.
SetAll(h, header) ==
    LET v(k) == IF header[k] # "" THEN header[k] ELSE h[k]
    IN  [h EXCEPT !["Content-Type"] = v("Content-Type"),
                  !["X-Content-Type-Options"] = v("X-Content-Type-Options"),
                  !["WWW-Authenticate"] = v("WWW-Authenticate")]

\* inner.ServeHTTP(w, r)
ServeHTTP(w, inner) ==
    LET h == [w EXCEPT !.Header = SetAll(w.Header, inner.Header)]
        c == IF inner.Code # 0 THEN WriteHeader(h, inner.Code) ELSE h
    IN  IF inner.Body # <<>> THEN Write(c, inner.Body[1]) ELSE c

\* httptest.NewRecorder(), rec.Result() and rec.Body
NewRecorder == NewWriter
Result(rec) == Delivered(rec)

\* The requests served: the request URI and the Content-Type header values.
URIs == {<<"/", "g", "o", "-", "d", "o", "u", "d", "o", "u", "/", "c", "o", "n", "f", "i", "g">>, <<"/", "u", "s", "e", "r">>}
ContentTypes == {<<>>, <<<<"a", "p", "p", "l", "i", "c", "a", "t", "i", "o", "n", "/", "j", "s", "o", "n">>>>, <<<<"m", "u", "l", "t", "i", "p", "a", "r", "t", "/", "f", "o", "r", "m", "-", "d", "a", "t", "a", ";", " ", "b", "o", "u", "n", "d", "a", "r", "y", "=", "x">>>>}

\* User names and passwords, configured and presented.
Credentials == {"", "admin", "secret"}

\* r.BasicAuth(): no usable Authorization header, or a user and a password.
NoAuth == [ok |-> FALSE, user |-> "", pass |-> ""]
Auths == {NoAuth} \cup [ok : {TRUE}, user : Credentials, pass : Credentials]


\* One request served by one middleware: the request, the configuration
\* read, the inner handler's invocations (what each did with its writer),
\* the debug log entries and the response as the client receives it.
Served(mw, req, cfg, inner, log, w) ==
    [mw |-> mw, req |-> req, cfg |-> cfg, inner |-> inner, log |-> log,
     resp |-> Delivered(w)]

NoRequest ==
    [mw |-> "none", req |-> <<>>, cfg |-> <<>>, inner |-> <<>>, log |-> <<>>,
     resp |-> Delivered(NewWriter)]

\* func Logger(inner http.Handler) http.Handler
Logger(uri, contentType, dumpErr, inner, parseErr) ==
    LET req == [URI |-> uri, ContentType |-> contentType]
        w == NewWriter
        rec == ServeHTTP(NewRecorder, inner)
        parses == Len(contentType) > 0 /\ Contains(contentType[1], S_multipart)
        hlog == [RawReq |-> IF parses THEN "form" ELSE "dump",
                 RespBody |-> rec.Body,
                 StatusCode |-> Result(rec).StatusCode,
                 RespHeader |-> Result(rec).Header]
        header == Result(rec).Header
        copied == [w EXCEPT !.Header = SetAll(w.Header, header)]
        written == WriteHeader(copied, Result(rec).StatusCode)
        out == IF rec.Body # <<>> THEN [written EXCEPT !.Body = rec.Body] ELSE written
    IN  /\ srv' =
             IF Contains(uri, S_goDoudou)
             THEN Served("Logger", req, <<>>, <<inner>>, <<>>, ServeHTTP(w, inner))
             ELSE IF dumpErr # Nil
             THEN Served("Logger", req, <<>>, <<>>, <<>>, Error(w, dumpErr, 500))
             ELSE IF parses /\ parseErr # Nil
             THEN Served("Logger", req, <<>>, <<inner>>, <<>>, Error(w, parseErr, 400))
             ELSE Served("Logger", req, <<>>, <<inner>>, <<hlog>>, out)
        /\ UNCHANGED <<dao, cli, gen>>

ConstantTimeCompare_equal(x, y) == 1

\* subtle.ConstantTimeCompare(x, y): 1 when the two hold the same bytes
ConstantTimeCompare(x, y) == IF x = y THEN 1 ELSE 0

\* func BasicAuth(inner http.Handler) http.Handler
BasicAuth(username, password, auth, inner) ==
    LET req == [Authorization |-> auth]
        cfg == [GddManageUser |-> username, GddManagePass |-> password]
        w == NewWriter
        user == auth.user
        pass == auth.pass
        ok == auth.ok
        denied == Write(WriteHeader(
                     [w EXCEPT !.Header["WWW-Authenticate"] =
                                   "Basic realm=\"Provide user name and password\""],
                     401), "Unauthorised.\n")
    IN  /\ srv' =
             IF (IsNotEmpty(username) \/ IsNotEmpty(password))
                /\ (~ok \/ ConstantTimeCompare(user, username) # 1
                        \/ ConstantTimeCompare(pass, password) # 1)
             THEN Served("BasicAuth", req, cfg, <<>>, <<>>, denied)
             ELSE Served("BasicAuth", req, cfg, <<inner>>, <<>>, ServeHTTP(w, inner))
        /\ UNCHANGED <<dao, cli, gen>>

ServerNext ==
    \/ Idle /\ \E u \in URIs, t \in ContentTypes, e1 \in {Nil, "dump"}, i \in Inners,
                  e2 \in {Nil, "parse"} : Logger(u, t, e1, i, e2)
    \/ Idle /\ \E u \in Credentials, p \in Credentials, a \in Auths, i \in Inners :
                  BasicAuth(u, p, a, i)

----------------------------------------------------------------------------

Init ==
    /\ dao = NoCall
    /\ cli = NoClient
    /\ gen \in Gens
    /\ srv = NoRequest

Next == DaoNext \/ ClientNext \/ ServerNext

Spec == Init /\ [][Next]_vars

----------------------------------------------------------------------------
(* Claims about the generated DAO *)

\* The least integer not below total / pageSize.
C1_ceil(total, pageSize) ==
    CHOOSE c \in 0..total : c * pageSize >= total /\ (c = 0 \/ (c - 1) * pageSize < total)

\* C1: for total >= 0, pageSize >= 1 and pageNumber >= 1, a PageMany that
\* returns without error reports HasNext = TRUE exactly when
\* ceil(total / pageSize) > pageNumber; (25, 10, 1) gives TRUE, (25, 10, 3)
\* gives FALSE and the boundary (20, 10, 2) gives FALSE.
C1_HasNext ==
    (dao.op = "PageMany" /\ dao.err = Nil) =>
        LET total == dao.val.Total
            size == dao.page.PageSize
            no == dao.page.PageNo
        IN  /\ dao.val.HasNext = (C1_ceil(total, size) > no)
            /\ (total = 25 /\ size = 10 /\ no = 1) => dao.val.HasNext = TRUE
            /\ (total = 25 /\ size = 10 /\ no = 3) => dao.val.HasNext = FALSE
            /\ (total = 20 /\ size = 10 /\ no = 2) => dao.val.HasNext = FALSE

C1_Witness ==
    /\ dao.op = "PageMany" /\ dao.err = Nil
    /\ dao.val.Total = 20 /\ dao.page.PageSize = 10 /\ dao.page.PageNo = 2
    /\ dao.val.HasNext = FALSE

\* The number of places where sub occurs in s.
C2_count(s, sub) == Cardinality({i \in 1..Len(s) : OccursAt(s, sub, i)})

\* Every fragment's text, each after one space, in the order given.
RECURSIVE C2_fragments(_)
C2_fragments(where) ==
    IF where = <<>> THEN <<>>
    ELSE S_sp \o Head(where).sql \o C2_fragments(Tail(where))

\* C2: in SelectMany, CountMany and both statements of PageMany, the
\* statement handed to the store holds no "where" keyword when no predicate
\* fragment is given, and otherwise exactly one, followed by every
\* fragment's text, space-joined, in the caller's order.
C2_WhereClause ==
    dao.op \in {"SelectMany", "CountMany", "PageMany"} =>
        \A k \in 1..Len(dao.calls) :
            LET c == dao.calls[k]
                base == IF c.fn = "SelectContext" THEN S_select ELSE S_count
                paging == IF dao.op = "PageMany" /\ c.fn = "SelectContext"
                          THEN S_sp \o dao.page.sql ELSE <<>>
            IN  IF dao.where = <<>>
                THEN /\ C2_count(c.arg, S_where) = 0
                     /\ c.arg = base \o paging
                ELSE /\ C2_count(c.arg, S_where) = 1
                     /\ c.arg = base \o S_sp \o S_where \o C2_fragments(dao.where) \o paging

C2_Witness ==
    /\ dao.op = "PageMany" /\ Len(dao.calls) = 2
    /\ Len(dao.where) = 2 /\ dao.where[1] # dao.where[2]
    /\ \A k \in 1..2 : C2_count(dao.calls[k].arg, S_where) = 1

\* The answers of the store to a call of an insert-like operation.
C3_answer(fn) == {dao.calls[k].out : k \in {j \in 1..Len(dao.calls) : dao.calls[j].fn = fn}}

\* C3: Insert, Upsert and UpsertNoneZero overwrite the caller's primary key
\* with the last-insert id exactly when the store calls succeeded, the id is
\* greater than zero and the input is a *domain.User; otherwise the caller's
\* input is unchanged, and a type mismatch alone produces no error.
C3_BackPopulation ==
    dao.op \in {"Insert", "Upsert", "UpsertNoneZero"} =>
        LET reported == {o \in C3_answer("LastInsertId") : o.err = Nil /\ o.id > 0}
            succeeded == \A k \in 1..Len(dao.calls) : dao.calls[k].out.err = Nil
        IN  /\ IF reported # {} /\ dao.data.type = "*domain.User"
               THEN \E o \in reported : dao.after = [dao.data EXCEPT !.ID = o.id]
               ELSE dao.after = dao.data
            /\ (succeeded /\ Len(dao.calls) = 4) => dao.err = Nil

C3_Witness ==
    /\ dao.op = "UpsertNoneZero"
    /\ dao.data.type = "*domain.User"
    /\ dao.after.ID = 2 /\ dao.data.ID # 2

\* C10: UpdateMany and UpdateManyNoneZero, given data whose underlying value
\* is not a domain.User, return (0, a validation error) and neither render a
\* statement nor call the store.
C10_IncorrectType ==
    (/\ dao.op \in {"UpdateMany", "UpdateManyNoneZero"}
     /\ dao.data.type \notin {"domain.User", "*domain.User"}) =>
        /\ dao.val = 0
        /\ dao.err = ErrIncorrectType
        /\ dao.calls = <<>>

C10_Witness ==
    /\ dao.op = "UpdateManyNoneZero"
    /\ dao.data.type = "*domain.Order"
    /\ dao.err = ErrIncorrectType

----------------------------------------------------------------------------
(* Claims about the emitted client *)

\* The steps that act outside the method, in the order they ran.
Ran(step) == \E k \in 1..Len(cli.steps) : cli.steps[k] = step
LastStep == cli.steps[Len(cli.steps)]

\* Every error-classified result of the method called holds an error.
ErrorResultsSet ==
    \A i \in 1..Len(Methods[cli.m].Results) :
        Methods[cli.m].Results[i].Type = T_error => cli.res[i] # Nil

\* C4: once server selection fails, the round trip returns an error or the
\* response is an error response, the method has set its error result and
\* returned: no request follows a failed server selection, and no JSON
\* decoding, directory or file creation or copy follows any of the three.
C4_TransportFailure ==
    cli.failed \in {"SelectServer", "Send", "IsError"} =>
        /\ cli.status = "returned"
        /\ ErrorResultsSet
        /\ cli.failed = "SelectServer" => (cli.sent = <<>> /\ LastStep = "SelectServer")
        /\ cli.failed \in {"Send", "IsError"} => (Len(cli.sent) = 1 /\ LastStep = "Send")
        /\ ~Ran("json.Unmarshal") /\ ~Ran("CreateDirectory")
        /\ ~Ran("os.Create") /\ ~Ran("io.Copy")

C4_Witness ==
    /\ cli.failed = "IsError"
    /\ cli.status = "returned"
    /\ Methods[cli.m] = M_GetFile
    /\ cli.res[3] = ErrorBody

\* C5: when opening an uploaded file fails, the method has set its error
\* result and returned at once, and no request is sent on that call, also
\* when earlier files of the collection were opened and attached.
C5_OpenFailure ==
    cli.failed = "Open" =>
        /\ cli.status = "returned"
        /\ ErrorResultsSet
        /\ cli.sent = <<>>
        /\ LastStep = "Open"

C5_Witness ==
    /\ cli.failed = "Open"
    /\ cli.status = "returned"
    /\ cli.files # <<>>
    /\ cli.sent = <<>>

\* C6: in a method without a file-download result whose response decoded:
\* if the string decoded for the error result is not empty, that text is
\* returned as the error and every other result is at its zero value; if it
\* is empty, the error is nil and every other result is the decoded field
\* of its camel-cased name, in declared order.
C6_DecodedResults ==
    (cli.status = "returned" /\ cli.failed = "" /\ Ran("json.Unmarshal")) =>
        LET m == Methods[cli.m]
            field(i) == cli.result[ToCamel(m.Results[i].Name)]
            errs == {i \in 1..Len(m.Results) : m.Results[i].Type = T_error /\ field(i) # ""}
        IN  \A i \in 1..Len(m.Results) :
                IF errs # {}
                THEN IF i \in errs THEN cli.res[i] = field(i) /\ cli.res[i] # Nil
                     ELSE cli.res[i] = ZeroOf(m.Results[i].Type)
                ELSE IF m.Results[i].Type = T_error THEN cli.res[i] = Nil
                     ELSE cli.res[i] = field(i)

C6_Witness ==
    /\ cli.status = "returned" /\ cli.failed = "" /\ Ran("json.Unmarshal")
    /\ Methods[cli.m] = M_CreateUser
    /\ cli.result[ToCamel(R_new_id)] = "v1" /\ cli.result[ToCamel(R_err)] = "boom"
    /\ cli.res = <<"zero", "boom">>

\* C7: the template emits no JSON-decoding branch for a method with a
\* *os.File result and exactly one for any other method; a file-download
\* call that succeeds returns right after the copy, with the file as its
\* file result and every other result at its zero value.
C7_JsonBranch ==
    cli.status # "idle" =>
        LET m == Methods[cli.m]
            json == {k \in 1..Len(Render(m)) : Render(m)[k].op = "Json"}
            file == \E i \in 1..Len(m.Results) : m.Results[i].Type = T_file
        IN  /\ Cardinality(json) = IF file THEN 0 ELSE 1
            /\ (file /\ cli.status = "returned" /\ cli.failed = "") =>
                  /\ LastStep = "io.Copy"
                  /\ ~Ran("json.Unmarshal")
                  /\ \A i \in 1..Len(m.Results) :
                        cli.res[i] = IF m.Results[i].Type = T_file THEN "file"
                                     ELSE ZeroOf(m.Results[i].Type)

C7_Witness ==
    /\ cli.status = "returned" /\ cli.failed = ""
    /\ Methods[cli.m] = M_GetFile
    /\ cli.res = <<"zero", "file", Nil>>

\* C8: every failing step of a client method or of a DAO operation makes it
\* return a non-nil error: no failure path returns a nil error.
C8_ErrorsReturned ==
    /\ cli.failed # "" =>
          \E i \in 1..Len(Methods[cli.m].Results) :
              Methods[cli.m].Results[i].Type = T_error /\ cli.res[i] # Nil
    /\ (\E k \in 1..Len(dao.calls) : dao.calls[k].out.err # Nil) => dao.err # Nil

\* C9: a context parameter is attached as the request's context and is in
\* neither query, form nor body; a primitive or primitive-collection
\* parameter is never the body, and its values (one entry per element) are
\* under its name in the query when the verb is GET, and for another verb in
\* the form exactly when the request has no body.
C9_Parameters ==
    \A k \in 1..Len(cli.sent) :
        LET r == cli.sent[k]
            m == Methods[cli.m]
        IN  \A i \in 1..Len(m.Params) :
                LET p == m.Params[i]
                    values == [j \in 1..Len(cli.args[i]) |-> ToString(cli.args[i][j])]
                IN  /\ p.Type = T_context =>
                          /\ r.ctx = [param |-> p.Name]
                          /\ r.query[p.Name] = <<>> /\ r.form[p.Name] = <<>>
                          /\ r.body # [param |-> p.Name]
                    /\ p.Type \in {T_int, T_string, T_ints} =>
                          /\ r.body # [param |-> p.Name]
                          /\ r.ctx # [param |-> p.Name]
                          /\ IF HttpMethod(m.Name) = S_GET \/ r.body # NoBody
                             THEN r.query[p.Name] = values /\ r.form[p.Name] = <<>>
                             ELSE r.form[p.Name] = values /\ r.query[p.Name] = <<>>

C9_Witness ==
    /\ Len(cli.sent) = 1
    /\ Methods[cli.m] = M_DeleteUsers
    /\ cli.sent[1].form["ids"] = <<"1", "2">>
    /\ cli.sent[1].query["ids"] = <<>>
    /\ cli.sent[1].ctx = [param |-> "ctx"]

----------------------------------------------------------------------------
(* The request path *)

\* The requests a call has sent that went to the given path.
SentTo(path) == \A k \in 1..Len(cli.sent) : cli.sent[k].url = <<"server", path>>

\* C11: every request an emitted method sends goes to
\* /<interface name in lower case>/<method name, not split> exactly when the
\* routing-pattern strategy is 1 and to /<method name split to words> for any
\* other strategy, whatever the method's parameters, results and arguments.
C11_RoutePath ==
    cli.sent # <<>> =>
        LET method == Methods[cli.m].Name
            unsplit == S_slash \o ToLower(gen.Name) \o S_slash \o NoSplitPattern(method)
            split == S_slash \o Pattern(method)
        IN  /\ gen.RoutePatternStrategy = 1 <=> SentTo(unsplit)
            /\ gen.RoutePatternStrategy # 1 <=> SentTo(split)

C11_Witness ==
    /\ gen.RoutePatternStrategy = 1
    /\ gen.Name = I_Usersvc
    /\ cli.m = 3
    /\ Len(cli.sent) = 1
    /\ cli.sent[1].url = <<"server", <<"/", "u", "s", "e", "r", "s", "v", "c", "/",
                                       "d", "e", "l", "e", "t", "e", "u", "s", "e", "r", "s">> >>

----------------------------------------------------------------------------
(* The middleware *)

\* C12: BasicAuth invokes the inner handler, once, exactly when the configured
\* user and password are both empty or the request carries credentials equal
\* to both; otherwise the inner handler is not invoked and the response is
\* 401 with a WWW-Authenticate header.
C12_BasicAuth ==
    srv.mw = "BasicAuth" =>
        LET auth == srv.req.Authorization
            allowed == \/ srv.cfg.GddManageUser = "" /\ srv.cfg.GddManagePass = ""
                       \/ /\ auth.ok
                          /\ auth.user = srv.cfg.GddManageUser
                          /\ auth.pass = srv.cfg.GddManagePass
        IN  /\ allowed <=> Len(srv.inner) = 1
            /\ ~allowed => /\ srv.inner = <<>>
                           /\ srv.resp.StatusCode = 401
                           /\ srv.resp.Header["WWW-Authenticate"] # ""

C12_Witness ==
    /\ srv.mw = "BasicAuth"
    /\ srv.cfg = [GddManageUser |-> "admin", GddManagePass |-> "secret"]
    /\ srv.req.Authorization = [ok |-> TRUE, user |-> "admin", pass |-> "secret"]
    /\ Len(srv.inner) = 1
    /\ srv.resp.StatusCode = 404

\* C13: whenever Logger invokes the inner handler, it invokes it once and the
\* client receives the status, the headers and the body the inner handler
\* produced.
C13_LoggerTransparent ==
    (srv.mw = "Logger" /\ srv.inner # <<>>) =>
        /\ Len(srv.inner) = 1
        /\ srv.resp = Delivered(ServeHTTP(NewWriter, srv.inner[1]))

============================================================================
